---- MODULE Spec2Model ----
(***************************************************************************)
(* Model of the JRXML template compiler of muban-cli                       *)
(* (src/muban_cli/compiler.py): the scanner (_extract_asset_references),   *)
(* the resolution loop and the archive writer (_create_zip) of             *)
(* JRXMLCompiler.compile, run against a small file system.                 *)
(*                                                                         *)
(* A string that holds a path is modelled as the sequence of its parts     *)
(* between '/' characters: "dir/a.png" is <<"dir","a.png">>, "dir/" is     *)
(* <<"dir","">>, "./logo.png" is <<".","logo.png">> and "http://h/x.png"   *)
(* is <<"http:","","h","x.png">>.  An absolute, resolved path is the       *)
(* sequence of its names from the root: /w/logo.png is <<"w","logo.png">>. *)
(***************************************************************************)
EXTENDS Integers, Sequences, FiniteSets, TLC

\* ------------------------------------------------------------------ bounds
\* longest template, in expressions (one expression per line)
MaxExprs == 2
\* number of successive compile invocations with the same arguments
MaxRuns == 2

\* ------------------------------------------------------- generic helpers
Last(s) == s[Len(s)]

Front(s) == SubSeq(s, 1, Len(s) - 1)

InSeq(x, s) == \E i \in 1..Len(s) : s[i] = x

RECURSIVE SeqsUpTo(_, _)
\* all sequences over S of length at most n
SeqsUpTo(S, n) ==
  IF n = 0 THEN {<<>>}
  ELSE LET shorter == SeqsUpTo(S, n - 1)
       IN  shorter \cup {Append(s, x) : s \in {t \in shorter : Len(t) = n - 1}, x \in S}

\* ------------------------------------------------------ strings and paths
\* str.lower() on the path parts that occur in the templates
Lower(part) ==
  CASE part = "HTTP:" -> "http:"
    [] part = ".PNG" -> ".png"
    [] part = ".ZIP" -> ".zip"
    [] OTHER -> part

\* URL_PREFIXES = ('http://', 'https://', 'file://', 'ftp://'), as first parts
URL_PREFIXES == {"http:", "https:", "file:", "ftp:"}

\* asset_path.lower().startswith(self.URL_PREFIXES)
IsUrl(lit) ==
  /\ Len(lit) >= 3
  /\ Lower(lit[1]) \in URL_PREFIXES
  /\ lit[2] = ""

\* asset_path.endswith('/')
EndsWithSlash(lit) == Len(lit) >= 2 /\ Last(lit) = ""

\* the group "([^"]+/)" of DYNAMIC_DIR_PATTERN: one character at least, then '/'
IsDirLiteral(lit) == EndsWithSlash(lit) /\ lit # <<"", "">>

\* Path(name).suffix of a file name
SuffixOf(name) ==
  CASE name \in {"logo.png", "a.png", "b.png", "c.png", "missing.png",
                 "x.png", "secret.png", "pic.png"} -> ".png"
    [] name = "LOGO.PNG" -> ".PNG"
    [] name \in {"t.jrxml", "nofile.jrxml", "sub.jrxml", "u.jrxml"} -> ".jrxml"
    [] name \in {"t.zip", "out.zip", "u.zip", "report.zip"} -> ".zip"
    [] name = "REPORT.ZIP" -> ".ZIP"
    [] name = "test.txt" -> ".txt"
    [] name = "t.txt" -> ".txt"
    [] OTHER -> ""

\* Path(name).stem of a file name
StemOf(name) ==
  CASE name \in {"t.jrxml", "t.zip", "t.txt"} -> "t"
    [] name = "nofile.jrxml" -> "nofile"
    [] name = "out.zip" -> "out"
    [] name \in {"u.jrxml", "u.zip"} -> "u"
    [] OTHER -> name

IMAGE_EXTENSIONS == {".png", ".jpg", ".jpeg", ".gif", ".svg", ".bmp", ".tiff", ".tif"}

SUBREPORT_EXTENSIONS == {".jasper", ".jrxml"}

RECURSIVE Normalize(_, _)
\* Path.resolve(): fold the parts of a path onto an absolute path, dropping
\* empty and "." parts and letting ".." remove the last name
Normalize(abs, parts) ==
  IF parts = <<>> THEN abs
  ELSE LET p == Head(parts)
           nxt == IF p = "" \/ p = "." THEN abs
                  ELSE IF p = ".." THEN (IF abs = <<>> THEN abs ELSE Front(abs))
                  ELSE Append(abs, p)
       IN  Normalize(nxt, Tail(parts))

\* (base_dir / asset.path).resolve(): a literal starting with '/' is absolute
ResolveAgainst(base, lit) ==
  IF Len(lit) >= 2 /\ lit[1] = "" THEN Normalize(<<>>, lit) ELSE Normalize(base, lit)

RECURSIVE NormPath(_, _)
\* os.path.normpath on a relative name: "." and empty parts go, "x/.." cancels,
\* leading ".." stay
NormPath(acc, parts) ==
  IF parts = <<>> THEN acc
  ELSE LET p == Head(parts)
           nxt == IF p = "" \/ p = "." THEN acc
                  ELSE IF p = ".." /\ acc # <<>> /\ Last(acc) # ".." THEN Front(acc)
                  ELSE Append(acc, p)
       IN  NormPath(nxt, Tail(parts))

\* the entry name zipfile gives to zf.write(path, arcname): ZipInfo.from_file
\* normalises arcname and strips leading separators ("." when nothing is left)
ArcName(arcname) ==
  LET isAbs == Len(arcname) >= 2 /\ arcname[1] = ""
      n == NormPath(<<>>, arcname)
      m == IF isAbs THEN SelectSeq(n, LAMBDA p : p # "..") ELSE n
  IN  IF m = <<>> THEN <<".">> ELSE m

\* ----------------------------------------------------------- file system
NoNode == [kind |-> "none", r |-> FALSE, w |-> FALSE, tag |-> "none",
           text |-> <<>>, entries |-> <<>>]

DirNode(r, w) == [kind |-> "dir", r |-> r, w |-> w, tag |-> "none",
                  text |-> <<>>, entries |-> <<>>]

\* an asset file; its bytes are identified by its tag
BlobNode(tag, r) == [kind |-> "file", r |-> r, w |-> TRUE, tag |-> tag,
                     text |-> <<>>, entries |-> <<>>]

\* a template file holding the given expressions
TextNode(text) == [kind |-> "file", r |-> TRUE, w |-> TRUE, tag |-> "text",
                   text |-> text, entries |-> <<>>]

\* an archive file holding the given entries
ZipNode(entries) == [kind |-> "file", r |-> TRUE, w |-> TRUE, tag |-> "zip",
                     text |-> <<>>, entries |-> entries]

\* the bytes of a file, as an archive entry stores them
DataOf(node) == [tag |-> node.tag, text |-> node.text, entries |-> node.entries]

NoData == [tag |-> "none", text |-> <<>>, entries |-> <<>>]

\* operands of a template expression, joined by '+' in the text
P(n) == [t |-> "P", name |-> n, lit |-> <<>>]

F(n) == [t |-> "F", name |-> n, lit |-> <<>>]

V(n) == [t |-> "V", name |-> n, lit |-> <<>>]

L(lit) == [t |-> "L", name |-> "", lit |-> lit]

\* the template's directory and the paths of the model's file system
BaseDir == <<"w">>

TplPath == <<"w", "t.jrxml">>

\* every path of the modelled file system, in the order in which the
\* operating system enumerates the entries of a directory
DirOrder ==
  << <<>>, <<"w">>,
     <<"w", "t.jrxml">>, <<"w", "logo.png">>, <<"w", "secret.png">>,
     <<"w", "dir">>, <<"w", "dir", "a.png">>, <<"w", "dir", "out.zip">>,
     <<"w", "dir", "b.png">>, <<"w", "dir", "sub">>, <<"w", "dir", "sub", "c.png">>,
     <<"w", "locked">>, <<"w", "ro">>, <<"w", "ro", "out.zip">>,
     <<"w", "build">>, <<"w", "build", "out.zip">>, <<"w", "t.zip">>,
     <<"w", "dir.zip">>, <<"w", "t.txt">>, <<"w", "empty">>,
     <<"v">>, <<"v", "u.jrxml">>, <<"v", "pic.png">>, <<"v", "u.zip">> >>

Paths == {DirOrder[i] : i \in 1..Len(DirOrder)}

\* the file system before the first compile, holding the given template
InitialFS(text) ==
  [p \in Paths |->
     CASE p \in {<<>>, <<"w">>, <<"w", "dir">>, <<"w", "dir", "sub">>,
                 <<"w", "empty">>} -> DirNode(TRUE, TRUE)
       [] p = <<"w", "locked">> -> DirNode(FALSE, TRUE)
       [] p = <<"w", "ro">> -> DirNode(TRUE, FALSE)
       [] p = TplPath -> TextNode(text)
       [] p = <<"w", "t.txt">> -> TextNode(<< <<P("REPORTS_DIR"), L(<<"logo.png">>)>> >>)
       [] p = <<"w", "logo.png">> -> BlobNode("logo", TRUE)
       [] p = <<"w", "secret.png">> -> BlobNode("secret", FALSE)
       [] p = <<"w", "dir", "a.png">> -> BlobNode("a", TRUE)
       [] p = <<"w", "dir", "b.png">> -> BlobNode("b", TRUE)
       [] p = <<"w", "dir", "sub", "c.png">> -> BlobNode("c", TRUE)
       [] OTHER -> NoNode]

\* ------------------------------------------------------------- templates
\* names a template may give to a path parameter
ParamNames == {"REPORTS_DIR", "OTHER"}

\* the expressions a template is built from
Exprs ==
  { << P("REPORTS_DIR"), L(<<"logo.png">>) >>,
    << P("REPORTS_DIR"), L(<<".", "logo.png">>) >>,
    << P("REPORTS_DIR"), L(<<"missing.png">>) >>,
    << P("REPORTS_DIR"), L(<<"secret.png">>) >>,
    << P("REPORTS_DIR"), L(<<"dir", "a.png">>) >>,
    << P("OTHER"), L(<<"logo.png">>) >>,
    << P("REPORTS_DIR"), L(<<"HTTP:", "", "h", "x.png">>) >>,
    << P("REPORTS_DIR"), L(<<"dir", "">>), F("f") >>,
    << P("REPORTS_DIR"), L(<<"nodir", "">>), P("n") >>,
    << P("REPORTS_DIR"), L(<<"locked", "">>), F("f") >>,
    << P("REPORTS_DIR"), L(<<"http:", "", "h", "d", "">>), V("v") >>,
    << F("img") >> }

Templates == SeqsUpTo(Exprs, MaxExprs)

\* the line of the i-th expression: one header line, then one expression per line
LineOf(i) == i + 1

\* no output path given (output_path is None)
NoPath == <<"<none>">>

\* source paths and output paths handed to compile
Sources == {TplPath, <<"w", "nofile.jrxml">>, <<"w", "dir">>}

OutputArgs == {NoPath, <<"w", "dir", "out.zip">>, <<"w", "build", "out.zip">>,
               <<"w", "ro", "out.zip">>}

\* ---------------------------------------------------------------- scanner
\* an AssetReference; dynamic_param is <<>> for None and <<kind, name>>
\* for the expression "$kind{name}"
AssetReference(path, source, line, type, isdir, dyn) ==
  [path |-> path, source_file |-> source, line_number |-> line,
   asset_type |-> type, is_dynamic_dir |-> isdir, dynamic_param |-> dyn]

RECURSIVE DynIn(_, _, _)
\* DYNAMIC_DIR_PATTERN.finditer on one expression, from operand i on:
\* $P{name} + "literal/" + $P|$F|$V{name}
DynIn(e, i, line) ==
  IF i + 2 > Len(e) THEN <<>>
  ELSE IF /\ e[i].t = "P"
          /\ e[i + 1].t = "L" /\ IsDirLiteral(e[i + 1].lit)
          /\ e[i + 2].t \in {"P", "F", "V"}
       THEN << [param |-> e[i].name, path |-> e[i + 1].lit,
                dyn |-> <<e[i + 2].t, e[i + 2].name>>, line |-> line] >>
            \o DynIn(e, i + 3, line)
       ELSE DynIn(e, i + 1, line)

RECURSIVE AssetIn(_, _, _)
\* ASSET_PATTERN.finditer on one expression, from operand i on:
\* $P{name} + "literal"
AssetIn(e, i, line) ==
  IF i + 1 > Len(e) THEN <<>>
  ELSE IF e[i].t = "P" /\ e[i + 1].t = "L" /\ e[i + 1].lit # <<"">>
       THEN << [param |-> e[i].name, path |-> e[i + 1].lit,
                dyn |-> <<>>, line |-> line] >>
            \o AssetIn(e, i + 2, line)
       ELSE AssetIn(e, i + 1, line)

RECURSIVE DynMatchesFrom(_, _)
\* the matches of DYNAMIC_DIR_PATTERN from line i of the text on, in text order
DynMatchesFrom(text, i) ==
  IF i > Len(text) THEN <<>>
  ELSE DynIn(text[i], 1, LineOf(i)) \o DynMatchesFrom(text, i + 1)

DynMatches(text) == DynMatchesFrom(text, 1)

RECURSIVE AssetMatchesFrom(_, _)
\* the matches of ASSET_PATTERN from line i of the text on, in text order
AssetMatchesFrom(text, i) ==
  IF i > Len(text) THEN <<>>
  ELSE AssetIn(text[i], 1, LineOf(i)) \o AssetMatchesFrom(text, i + 1)

AssetMatches(text) == AssetMatchesFrom(text, 1)

\* HAS_LITERAL_STRING.search(expr)
HasLiteral(e) == \E i \in 1..Len(e) : e[i].t = "L" /\ e[i].lit # <<"">>

RECURSIVE SkippedDynamic(_, _, _)
\* the loop over IMAGE_EXPRESSION_PATTERN: expressions without a literal
SkippedDynamic(text, i, acc) ==
  IF i > Len(text) THEN acc
  ELSE SkippedDynamic(text, i + 1,
         IF ~HasLiteral(text[i]) /\ ~InSeq(text[i], acc) THEN Append(acc, text[i])
         ELSE acc)

AssetType_NoLower(path) ==
  LET ext == SuffixOf(Last(path))
  IN  IF ext \in IMAGE_EXTENSIONS THEN "image"
      ELSE IF ext \in SUBREPORT_EXTENSIONS THEN "subreport"
      ELSE "unknown"

\* asset type from the extension of the literal's last part
AssetType(path) ==
  LET ext == Lower(SuffixOf(Last(path)))
  IN  IF ext \in IMAGE_EXTENSIONS THEN "image"
      ELSE IF ext \in SUBREPORT_EXTENSIONS THEN "subreport"
      ELSE "unknown"

DynSkipsLiteral_Never(path, seen) == FALSE

\* the duplicate check of the dynamic-directory loop
DynSkipsLiteral(path, seen) == path \in seen

RECURSIVE ScanDyn(_, _, _)
\* the first loop of _extract_asset_references
ScanDyn(ms, i, st) ==
  IF i > Len(ms) THEN st
  ELSE LET m == ms[i]
           det == [st EXCEPT !.detected = @ \cup {m.param}]
       IN  IF DynSkipsLiteral(m.path, st.seen) THEN ScanDyn(ms, i + 1, det)
           ELSE ScanDyn(ms, i + 1,
                  [det EXCEPT !.seen = @ \cup {m.path},
                              !.dynamic_dirs = @ \cup {m.path},
                              !.assets = Append(@, AssetReference(m.path, st.source,
                                            m.line, "directory", TRUE, m.dyn))])

RECURSIVE ScanStatic(_, _, _)
\* the second loop of _extract_asset_references
ScanStatic(ms, i, st) ==
  IF i > Len(ms) THEN st
  ELSE LET m == ms[i]
           det == [st EXCEPT !.detected = @ \cup {m.param}]
       IN  IF IsUrl(m.path)
             THEN ScanStatic(ms, i + 1,
                    IF InSeq(m.path, st.skipped_urls) THEN det
                    ELSE [det EXCEPT !.skipped_urls = Append(@, m.path)])
           ELSE IF EndsWithSlash(m.path) /\ m.path \in st.dynamic_dirs
             THEN ScanStatic(ms, i + 1, det)
           ELSE IF m.path \in st.seen THEN ScanStatic(ms, i + 1, det)
           ELSE ScanStatic(ms, i + 1,
                  [det EXCEPT !.seen = @ \cup {m.path},
                              !.assets = Append(@, AssetReference(m.path, st.source,
                                            m.line, AssetType(m.path), FALSE, <<>>))])

\* the order in which the two kinds of match are processed: every
\* dynamic-directory match first, then every static match
ExtractOrdered(text, st0) ==
  ScanStatic(AssetMatches(text), 1, ScanDyn(DynMatches(text), 1, st0))

\* _extract_asset_references on the text of the template; the configured
\* self.reports_dir_param is not consulted
ExtractAssetReferences(text, source, detected) ==
  ExtractOrdered(text,
    [assets |-> <<>>, seen |-> {}, dynamic_dirs |-> {}, source |-> source,
     detected |-> detected, skipped_urls |-> <<>>,
     skipped_dynamic |-> SkippedDynamic(text, 1, <<>>)])

\* ----------------------------------------------------------------- state
VARIABLES
  fs,                \* the file system: path -> node
  jrxml_arg,         \* compile's jrxml_path argument
  output_arg,        \* compile's output_path argument (NoPath for None)
  dry_run,           \* compile's dry_run argument
  reports_dir_param, \* JRXMLCompiler.reports_dir_param
  detected_params,   \* JRXMLCompiler._detected_params
  result,            \* the CompilationResult under construction
  assets_to_include, \* compile's list of (absolute_path, archive_path)
  idx,               \* position of the resolution loop in assets
  zidx,              \* position of _create_zip's loop in assets
  pc,                \* position of compile
  run,               \* number of the current invocation
  prev,              \* outcome of the previous invocation
  peer,              \* a second invocation in progress beside this one
  cli,               \* a command of the command line in progress
  http               \* an HTTPClient and its call of request in progress

vars == <<fs, jrxml_arg, output_arg, dry_run, reports_dir_param, detected_params,
          result, assets_to_include, idx, zidx, pc, run, prev, peer,
          cli, http>>

\* CompilationResult(success=False)
EmptyResult ==
  [success |-> FALSE, output_path |-> NoPath, main_jrxml |-> NoPath,
   assets_found |-> <<>>, assets_missing |-> <<>>, assets_included |-> <<>>,
   skipped_urls |-> <<>>, skipped_dynamic |-> <<>>, errors |-> <<>>, warnings |-> <<>>]

Node(p) == IF p \in DOMAIN fs THEN fs[p] ELSE NoNode

Exists_FileOnly(p) == Node(p).kind = "file"

\* Path.exists(), Path.is_dir(), Path.is_file()
Exists(p) == Node(p).kind # "none"

IsDir(p) == Node(p).kind = "dir"

IsFile(p) == Node(p).kind = "file"

\* Path(jrxml_path).resolve() and its parent
jrxml_path == Normalize(<<>>, jrxml_arg)

base_dir_Fixed == <<"w">>

base_dir == Front(jrxml_path)

WithSuffixZip_Appended(path) == Append(Front(path), Last(path) \o ".zip")

\* jrxml_path.with_suffix('.zip')
WithSuffixZip(path) == Append(Front(path), StemOf(Last(path)) \o ".zip")

\* compile_template is called on its own: no second invocation
NoPeer == [phase |-> "one"]

\* compile_template is called from a program: no command is running and no
\* HTTP client exists
NoCommand == [pc |-> "none"]

NoRequest == [pc |-> "none"]

Init ==
  /\ jrxml_arg \in Sources
  /\ output_arg \in OutputArgs
  /\ dry_run \in BOOLEAN
  /\ reports_dir_param \in ParamNames
  /\ \E text \in Templates :
       /\ jrxml_arg # TplPath => text = <<>>
       /\ fs = InitialFS(text)
  /\ detected_params = {}
  /\ result = EmptyResult
  /\ assets_to_include = <<>>
  /\ idx = 0
  /\ zidx = 0
  /\ pc = "start"
  /\ run = 1
  /\ prev = [result |-> EmptyResult, out |-> NoNode]
  /\ peer = NoPeer
  /\ cli = NoCommand
  /\ http = NoRequest

\* ------------------------------------------------------------ diagnostics
\* a warning: its wording (kind), the literal path it names, the template
\* file name it names, the dynamic expression and the file count it states
Warning(kind, path, name, dyn, count) ==
  [kind |-> kind, path |-> path, name |-> name, dyn |-> dyn, count |-> count]

Error(kind) == [kind |-> kind]

\* --------------------------------------------------------------- compile
\* lines 132-152: validate the input and fix the output path
Validate ==
  /\ pc = "start"
  /\ IF ~Exists(jrxml_path)
     THEN /\ result' = [result EXCEPT !.errors = Append(@, Error("JRXML file not found"))]
          /\ pc' = "done"
     ELSE /\ result' =
               [result EXCEPT
                  !.warnings = IF Lower(SuffixOf(Last(jrxml_path))) # ".jrxml"
                               THEN Append(@, Warning("File does not have .jrxml extension", jrxml_path, "", <<>>, 0))
                               ELSE @,
                  !.main_jrxml = jrxml_path,
                  !.output_path = IF output_arg = NoPath THEN WithSuffixZip(jrxml_path)
                                  ELSE Normalize(<<>>, output_arg)]
          /\ pc' = "scan"
  /\ UNCHANGED <<fs, jrxml_arg, output_arg, dry_run, reports_dir_param, detected_params,
                 assets_to_include, idx, zidx, run, prev, peer, cli, http>>

\* jrxml_path.read_text() succeeds on a readable regular file
CanRead(p) == IsFile(p) /\ Node(p).r

\* whether jrxml_path.read_text() returns: it does on a readable text file;
\* on a readable file that holds an archive the bytes may or may not decode
ReadTextOutcomes(p) ==
  IF ~CanRead(p) THEN {FALSE}
  ELSE IF Node(p).tag = "text" THEN {TRUE}
  ELSE BOOLEAN

\* lines 155-160: scan the template; a failure to read it is caught
Scan ==
  /\ pc = "scan"
  /\ \E decoded \in ReadTextOutcomes(jrxml_path) :
     IF ~decoded
     THEN /\ result' = [result EXCEPT !.errors = Append(@, Error("Failed to parse JRXML"))]
          /\ pc' = "done"
          /\ UNCHANGED <<detected_params, idx>>
     ELSE LET st == ExtractAssetReferences(Node(jrxml_path).text, jrxml_path, detected_params)
          IN  /\ result' = [result EXCEPT !.assets_found = st.assets,
                                          !.skipped_urls = st.skipped_urls,
                                          !.skipped_dynamic = st.skipped_dynamic]
              /\ detected_params' = st.detected
              /\ idx' = 1
              /\ pc' = "resolve"
  /\ UNCHANGED <<fs, jrxml_arg, output_arg, dry_run, reports_dir_param,
                 assets_to_include, zidx, run, prev, peer, cli, http>>

\* asset.path + file_path.name, a concatenation of strings
StrConcat(lit, name) == Append(Front(lit), Last(lit) \o name)

\* list(asset_abs_path.iterdir()): the entries of a directory, in directory order
ListDir(d) ==
  SelectSeq(DirOrder, LAMBDA p : Len(p) = Len(d) + 1 /\ Front(p) = d /\ Exists(p))

\* the files of a listing: the entries for which file_path.is_file() holds
FilesOf(listing) == SelectSeq(listing, LAMBDA p : IsFile(p))

\* the test that opens the branches of a static reference (line 196)
StaticFound(abs) == Exists(abs)

DirFound_NoDirCheck(abs) == Exists(abs)

\* the test that opens the branches of a dynamic directory (line 175)
DirFound(abs) == Exists(abs) /\ IsDir(abs)

\* lines 197-199: a static reference that was found
IncludeStatic(st, asset, abs) ==
  [result |-> [st.result EXCEPT !.assets_included = Append(@, abs)],
   include |-> Append(st.include, <<abs, asset.path>>)]

MissingStatic_NoWarning(st, asset) ==
  [st EXCEPT !.result.assets_missing = Append(@, asset)]

\* lines 201-204: a static reference that was not found
MissingStatic(st, asset) ==
  [st EXCEPT !.result.assets_missing = Append(@, asset),
             !.result.warnings = Append(@, Warning("Asset not found", asset.path,
                                                   Last(asset.source_file), <<>>, 0))]

\* lines 176-190: every file of the directory, then one warning with the count
SweepDir(st, asset, abs) ==
  LET files == FilesOf(ListDir(abs))
      pairs == [i \in 1..Len(files) |-> <<files[i], StrConcat(asset.path, Last(files[i]))>>]
  IN  [result |-> [st.result EXCEPT
                     !.assets_included = @ \o files,
                     !.warnings = Append(@, Warning("Dynamic asset", asset.path, "",
                                                    asset.dynamic_param, Len(files)))],
       include |-> st.include \o pairs]

\* lines 192-195: a dynamic directory that was not found
MissingDir(st, asset) ==
  [st EXCEPT !.result.assets_missing = Append(@, asset),
             !.result.warnings = Append(@, Warning("Directory not found", asset.path,
                                                   Last(asset.source_file), <<>>, 0))]

\* lines 170-204: one iteration of the resolution loop; a directory that
\* cannot be listed raises out of compile
Resolve ==
  /\ pc = "resolve"
  /\ idx <= Len(result.assets_found)
  /\ LET asset == result.assets_found[idx]
         abs == ResolveAgainst(base_dir, asset.path)
         st == [result |-> result, include |-> assets_to_include]
         raises == asset.is_dynamic_dir /\ DirFound(abs) /\ ~Node(abs).r
         nxt == IF asset.is_dynamic_dir
                THEN (IF DirFound(abs) THEN SweepDir(st, asset, abs) ELSE MissingDir(st, asset))
                ELSE (IF StaticFound(abs) THEN IncludeStatic(st, asset, abs)
                      ELSE MissingStatic(st, asset))
     IN  IF raises
         THEN /\ pc' = "raised"
              /\ UNCHANGED <<result, assets_to_include, idx>>
         ELSE /\ result' = nxt.result
              /\ assets_to_include' = nxt.include
              /\ idx' = idx + 1
              /\ pc' = pc
  /\ UNCHANGED <<fs, jrxml_arg, output_arg, dry_run, reports_dir_param, detected_params,
                 zidx, run, prev, peer, cli, http>>

StopsBeforeZip_Never == FALSE

StopsBeforeZip_Inverted == ~dry_run

\* line 211: whether compile returns before the archive is written
StopsBeforeZip == dry_run

\* lines 206-213: the loop is over; a dry run returns here
Report ==
  /\ pc = "resolve"
  /\ idx > Len(result.assets_found)
  /\ IF StopsBeforeZip
     THEN /\ result' = [result EXCEPT !.success = TRUE]
          /\ pc' = "done"
     ELSE /\ pc' = "zip_open"
          /\ UNCHANGED result
  /\ UNCHANGED <<fs, jrxml_arg, output_arg, dry_run, reports_dir_param, detected_params,
                 assets_to_include, idx, zidx, run, prev, peer, cli, http>>

\* ------------------------------------------------------------ _create_zip
output_path == result.output_path

RECURSIVE MkdirOk(_)
\* whether output_path.parent.mkdir(parents=True, exist_ok=True) succeeds
MkdirOk(d) ==
  IF IsDir(d) THEN TRUE
  ELSE IF IsFile(d) \/ d = <<>> \/ d \notin Paths THEN FALSE
  ELSE MkdirOk(Front(d)) /\ (IsDir(Front(d)) => Node(Front(d)).w)

RECURSIVE Ancestors(_)
Ancestors(d) == IF d = <<>> THEN {d} ELSE {d} \cup Ancestors(Front(d))

\* the file system after a successful mkdir(parents=True, exist_ok=True)
MkdirP(d) ==
  [p \in Paths |-> IF p \in Ancestors(d) /\ ~Exists(p) THEN DirNode(TRUE, TRUE) ELSE fs[p]]

\* whether open(output_path, 'w+b') succeeds on the file system f
CanOpenForWrite(f, p) ==
  /\ p \in Paths
  /\ f[p].kind # "dir"
  /\ IF f[p].kind = "file" THEN f[p].w ELSE f[Front(p)].kind = "dir" /\ f[Front(p)].w

ZipFailed_Success(res) ==
  [res EXCEPT !.errors = Append(@, Error("Failed to create ZIP")), !.success = TRUE]

ZipFailed_DropsWarnings(res) ==
  [res EXCEPT !.errors = Append(@, Error("Failed to create ZIP")), !.warnings = <<>>]

\* line 220: the except branch of compile around _create_zip
ZipFailed(res) == [res EXCEPT !.errors = Append(@, Error("Failed to create ZIP"))]

\* lines 349-351: create the parent directory, open (truncate) the archive
CreateZipOpen ==
  /\ pc = "zip_open"
  /\ LET parent == Front(output_path)
     IN  IF ~MkdirOk(parent)
         THEN /\ result' = ZipFailed(result)
              /\ pc' = "done"
              /\ UNCHANGED fs
         ELSE LET f == MkdirP(parent)
              IN  IF ~CanOpenForWrite(f, output_path)
                  THEN /\ result' = ZipFailed(result)
                       /\ pc' = "done"
                       /\ fs' = f
                  ELSE /\ fs' = [f EXCEPT ![output_path] = ZipNode(<<>>)]
                       /\ pc' = "zip_tpl"
                       /\ UNCHANGED result
  /\ UNCHANGED <<jrxml_arg, output_arg, dry_run, reports_dir_param, detected_params,
                 assets_to_include, idx, zidx, run, prev, peer, cli, http>>

\* whether zf.write(src, ...) raises: os.stat or open(src, 'rb') fails
WriteFails(src) == ~Exists(src) \/ (IsFile(src) /\ ~Node(src).r)

\* the bytes zf.write may read from src: a file's content, nothing for a
\* directory, and for the archive that is being written itself any prefix
\* of what was written so far (what reached the file is up to buffering)
ReadableData(src) ==
  IF IsDir(src) THEN {NoData}
  ELSE IF src = output_path
       THEN {[tag |-> "zip", text |-> <<>>, entries |-> SubSeq(Node(src).entries, 1, k)] :
               k \in 0..Len(Node(src).entries)}
       ELSE {DataOf(Node(src))}

\* the entry zf.write(src, arcname) appends; a directory gets a trailing '/'
ZipEntry(src, arcname, data) ==
  [name |-> IF IsDir(src) THEN Append(ArcName(arcname), "") ELSE ArcName(arcname),
   data |-> data]

\* zf.write(src, arcname) on the open archive; on an exception the with
\* block closes the archive as it is and compile records the error
ZipWrite(src, arcname, pcNext) ==
  IF WriteFails(src)
  THEN /\ result' = ZipFailed(result)
       /\ pc' = "done"
       /\ UNCHANGED fs
  ELSE /\ \E data \in ReadableData(src) :
            fs' = [fs EXCEPT ![output_path].entries = Append(@, ZipEntry(src, arcname, data))]
       /\ pc' = pcNext
       /\ UNCHANGED result

\* line 353: the template goes first, under its own name
ZipWriteTemplate ==
  /\ pc = "zip_tpl"
  /\ ZipWrite(jrxml_path, <<Last(jrxml_path)>>, "zip_assets")
  /\ zidx' = 1
  /\ UNCHANGED <<jrxml_arg, output_arg, dry_run, reports_dir_param, detected_params,
                 assets_to_include, idx, run, prev, peer, cli, http>>

\* lines 357-358: one asset per iteration
ZipWriteAsset ==
  /\ pc = "zip_assets"
  /\ zidx <= Len(assets_to_include)
  /\ ZipWrite(assets_to_include[zidx][1], assets_to_include[zidx][2], "zip_assets")
  /\ zidx' = zidx + 1
  /\ UNCHANGED <<jrxml_arg, output_arg, dry_run, reports_dir_param, detected_params,
                 assets_to_include, idx, run, prev, peer, cli, http>>

\* the with block ends, line 218: the archive is complete
ZipClose ==
  /\ pc = "zip_assets"
  /\ zidx > Len(assets_to_include)
  /\ result' = [result EXCEPT !.success = TRUE]
  /\ pc' = "done"
  /\ UNCHANGED <<fs, jrxml_arg, output_arg, dry_run, reports_dir_param, detected_params,
                 assets_to_include, idx, zidx, run, prev, peer, cli, http>>

\* compile_template once more with the same arguments (a fresh JRXMLCompiler
\* and a fresh CompilationResult); prev keeps the outcome of the call before
Recompile ==
  /\ pc = "done"
  /\ run < MaxRuns
  /\ prev' = [result |-> result, out |-> Node(output_path)]
  /\ run' = run + 1
  /\ detected_params' = {}
  /\ result' = EmptyResult
  /\ assets_to_include' = <<>>
  /\ idx' = 0
  /\ zidx' = 0
  /\ pc' = "start"
  /\ UNCHANGED <<fs, jrxml_arg, output_arg, dry_run, reports_dir_param, peer, cli, http>>

Next ==
  \/ Validate
  \/ Scan
  \/ Resolve
  \/ Report
  \/ CreateZipOpen
  \/ ZipWriteTemplate
  \/ ZipWriteAsset
  \/ ZipClose
  \/ Recompile

Spec == Init /\ [][Next]_vars

\* ------------------------------------------- templates of every shape
\* one expression for each shape the scanner and the resolver tell apart:
\* a directory literal under two dynamic expressions and on its own, a
\* literal that names a file where a directory is expected, an empty and a
\* missing directory, and static literals of each asset type
ShapeExprs ==
  { << P("REPORTS_DIR"), L(<<"dir", "">>), F("f") >>,
    << P("REPORTS_DIR"), L(<<"dir", "">>), V("g") >>,
    << P("REPORTS_DIR"), L(<<"dir", "">>) >>,
    << P("REPORTS_DIR"), L(<<"logo.png">>) >>,
    << P("REPORTS_DIR"), L(<<"logo.png", "">>), F("f") >>,
    << P("REPORTS_DIR"), L(<<"empty", "">>), P("n") >>,
    << P("REPORTS_DIR"), L(<<"nodir", "">>), F("f") >>,
    << P("REPORTS_DIR"), L(<<"LOGO.PNG">>) >>,
    << P("REPORTS_DIR"), L(<<"sub.jrxml">>) >> }

ShapeTemplates == SeqsUpTo(ShapeExprs, MaxExprs)

\* source paths: the template, a template without the .jrxml extension, a
\* path that does not exist and a directory
ShapeSources == {TplPath, <<"w", "t.txt">>, <<"w", "nofile.jrxml">>, <<"w", "dir">>}

InitShapes ==
  /\ jrxml_arg \in ShapeSources
  /\ output_arg = NoPath
  /\ dry_run \in BOOLEAN
  /\ reports_dir_param = "REPORTS_DIR"
  /\ \E text \in ShapeTemplates :
       /\ jrxml_arg # TplPath => text = <<>>
       /\ fs = InitialFS(text)
  /\ detected_params = {}
  /\ result = EmptyResult
  /\ assets_to_include = <<>>
  /\ idx = 0
  /\ zidx = 0
  /\ pc = "start"
  /\ run = 1
  /\ prev = [result |-> EmptyResult, out |-> NoNode]
  /\ peer = NoPeer
  /\ cli = NoCommand
  /\ http = NoRequest

SpecShapes == InitShapes /\ [][Next]_vars

\* ------------------------------------------ a dry run, then a full run
\* compile_template with dry_run=True first
InitDryFull == Init /\ dry_run = TRUE

\* compile_template once more with the same template and arguments but
\* dry_run=False, on the file system the dry run left; prev keeps the result
\* of the dry run
RecompileFull ==
  /\ pc = "done"
  /\ dry_run
  /\ prev' = [result |-> result, out |-> Node(output_path)]
  /\ dry_run' = FALSE
  /\ run' = run + 1
  /\ detected_params' = {}
  /\ result' = EmptyResult
  /\ assets_to_include' = <<>>
  /\ idx' = 0
  /\ zidx' = 0
  /\ pc' = "start"
  /\ UNCHANGED <<fs, jrxml_arg, output_arg, reports_dir_param, peer, cli, http>>

NextDryFull ==
  \/ Validate
  \/ Scan
  \/ Resolve
  \/ Report
  \/ CreateZipOpen
  \/ ZipWriteTemplate
  \/ ZipWriteAsset
  \/ ZipClose
  \/ RecompileFull

SpecDryFull == InitDryFull /\ [][NextDryFull]_vars

\* ------------------------------------ source names and output paths
\* a template whose file name already ends in .zip
ZipNamedTpl == <<"w", "t.zip">>

OutputSources == {TplPath, ZipNamedTpl}

\* no output path, the path of the template, the path of an asset and a path
\* of its own
OutputChoices == {NoPath, TplPath, <<"w", "logo.png">>, <<"w", "build", "out.zip">>}

OutputExprs ==
  { << P("REPORTS_DIR"), L(<<"logo.png">>) >>,
    << P("REPORTS_DIR"), L(<<"dir", "">>), F("f") >> }

OutputTemplates == SeqsUpTo(OutputExprs, MaxExprs)

InitOutputs ==
  /\ jrxml_arg \in OutputSources
  /\ output_arg \in OutputChoices
  /\ dry_run \in BOOLEAN
  /\ reports_dir_param = "REPORTS_DIR"
  /\ \E text \in OutputTemplates :
       fs = IF jrxml_arg = TplPath THEN InitialFS(text)
            ELSE [InitialFS(<<>>) EXCEPT ![ZipNamedTpl] = TextNode(text)]
  /\ detected_params = {}
  /\ result = EmptyResult
  /\ assets_to_include = <<>>
  /\ idx = 0
  /\ zidx = 0
  /\ pc = "start"
  /\ run = 1
  /\ prev = [result |-> EmptyResult, out |-> NoNode]
  /\ peer = NoPeer
  /\ cli = NoCommand
  /\ http = NoRequest

SpecOutputs == InitOutputs /\ [][Next]_vars

\* ------------------------------------- literals that leave the tree
\* a file beside the template's tree
OutsideFile == <<"v", "pic.png">>

\* literals that climb out of the template's directory, an absolute literal,
\* a directory outside the tree, and two literals that stay inside
TraversalExprs ==
  { << P("REPORTS_DIR"), L(<<"..", "v", "pic.png">>) >>,
    << P("REPORTS_DIR"), L(<<"", "v", "pic.png">>) >>,
    << P("REPORTS_DIR"), L(<<"..", "v", "">>), F("f") >>,
    << P("REPORTS_DIR"), L(<<"dir", "..", "logo.png">>) >>,
    << P("REPORTS_DIR"), L(<<"logo.png">>) >> }

TraversalTemplates == SeqsUpTo(TraversalExprs, MaxExprs)

InitTraversal ==
  /\ jrxml_arg = TplPath
  /\ output_arg \in {NoPath, <<"w", "build", "out.zip">>}
  /\ dry_run \in BOOLEAN
  /\ reports_dir_param = "REPORTS_DIR"
  /\ \E text \in TraversalTemplates :
       fs = [InitialFS(text) EXCEPT ![<<"v">>] = DirNode(TRUE, TRUE),
                                    ![OutsideFile] = BlobNode("pic", TRUE)]
  /\ detected_params = {}
  /\ result = EmptyResult
  /\ assets_to_include = <<>>
  /\ idx = 0
  /\ zidx = 0
  /\ pc = "start"
  /\ run = 1
  /\ prev = [result |-> EmptyResult, out |-> NoNode]
  /\ peer = NoPeer
  /\ cli = NoCommand
  /\ http = NoRequest

SpecTraversal == InitTraversal /\ [][Next]_vars

\* --------------------------------------- two invocations side by side
\* the second template and its tree, apart from the tree of the first
UPath == <<"v", "u.jrxml">>

\* expressions of the first template: a file and a directory of its tree, a
\* name that exists in no tree and a name that exists in the other tree only
PairExprsA ==
  { << P("REPORTS_DIR"), L(<<"logo.png">>) >>,
    << P("REPORTS_DIR"), L(<<"dir", "">>), F("f") >>,
    << P("REPORTS_DIR"), L(<<"missing.png">>) >>,
    << P("REPORTS_DIR"), L(<<"pic.png">>) >> }

PairTemplatesA == SeqsUpTo(PairExprsA, MaxExprs)

\* the second template: a file of its tree, then a name that exists in the
\* other tree only
PairTemplatesB ==
  { << << P("REPORTS_DIR"), L(<<"pic.png">>) >> >>,
    << << P("REPORTS_DIR"), L(<<"pic.png">>) >>, << P("REPORTS_DIR"), L(<<"logo.png">>) >> >> }

\* the file system with both trees
InitialFSPair(textA, textB) ==
  [InitialFS(textA) EXCEPT ![<<"v">>] = DirNode(TRUE, TRUE),
                           ![UPath] = TextNode(textB),
                           ![<<"v", "pic.png">>] = BlobNode("pic", TRUE)]

\* the arguments and locals of one call of compile_template: its
\* JRXMLCompiler, its CompilationResult and the locals of compile
FreshRegs(ja, oa, dr, rp) ==
  [jrxml_arg |-> ja, output_arg |-> oa, dry_run |-> dr, reports_dir_param |-> rp,
   detected_params |-> {}, result |-> EmptyResult, assets_to_include |-> <<>>,
   idx |-> 0, zidx |-> 0, pc |-> "start"]

CurrentRegs ==
  [jrxml_arg |-> jrxml_arg, output_arg |-> output_arg, dry_run |-> dry_run,
   reports_dir_param |-> reports_dir_param, detected_params |-> detected_params,
   result |-> result, assets_to_include |-> assets_to_include,
   idx |-> idx, zidx |-> zidx, pc |-> pc]

\* the call whose arguments and locals are r becomes the running one
LoadRegs(r) ==
  /\ jrxml_arg' = r.jrxml_arg
  /\ output_arg' = r.output_arg
  /\ dry_run' = r.dry_run
  /\ reports_dir_param' = r.reports_dir_param
  /\ detected_params' = r.detected_params
  /\ result' = r.result
  /\ assets_to_include' = r.assets_to_include
  /\ idx' = r.idx
  /\ zidx' = r.zidx
  /\ pc' = r.pc

\* what a call leaves behind: the result it returned and the file at its
\* output path
Outcome(r) ==
  [result |-> r.result,
   out |-> IF r.result.output_path = NoPath THEN NoNode ELSE Node(r.result.output_path)]

NoOutcome == [result |-> EmptyResult, out |-> NoNode]

\* two calls of compile_template, A on w/t.jrxml and B on v/u.jrxml, each
\* with the default output path; A runs first, B has not started
InitPair ==
  /\ \E textA \in PairTemplatesA, textB \in PairTemplatesB :
       fs = InitialFSPair(textA, textB)
  /\ jrxml_arg = TplPath
  /\ output_arg = NoPath
  /\ dry_run \in BOOLEAN
  /\ reports_dir_param = "REPORTS_DIR"
  /\ detected_params = {}
  /\ result = EmptyResult
  /\ assets_to_include = <<>>
  /\ idx = 0
  /\ zidx = 0
  /\ pc = "start"
  /\ run = 1
  /\ prev = [result |-> EmptyResult, out |-> NoNode]
  /\ peer = [phase |-> "both", who |-> "A",
             regs |-> FreshRegs(UPath, NoPath, FALSE, "REPORTS_DIR"),
             refA |-> NoOutcome, refB |-> NoOutcome]
  /\ cli = NoCommand
  /\ http = NoRequest

\* the scheduler suspends the running call between two of its steps and
\* resumes the other one
Switch ==
  /\ peer.phase = "both"
  /\ peer.regs.pc # "done"
  /\ LoadRegs(peer.regs)
  /\ peer' = [peer EXCEPT !.who = IF @ = "A" THEN "B" ELSE "A", !.regs = CurrentRegs]
  /\ UNCHANGED <<fs, run, prev, cli, http>>

\* the file system as it was before any call
RestoreFS == InitialFSPair(Node(TplPath).text, Node(UPath).text)

\* both calls have returned: keep what each left behind, put the file system
\* back and call compile_template for A alone
AloneA ==
  /\ peer.phase = "both"
  /\ pc = "done"
  /\ peer.regs.pc = "done"
  /\ LET a == IF peer.who = "A" THEN CurrentRegs ELSE peer.regs
         b == IF peer.who = "A" THEN peer.regs ELSE CurrentRegs
     IN  /\ peer' = [phase |-> "soloA", who |-> "A", regs |-> b,
                     refA |-> Outcome(a), refB |-> Outcome(b)]
         /\ LoadRegs(FreshRegs(a.jrxml_arg, a.output_arg, a.dry_run, a.reports_dir_param))
  /\ fs' = RestoreFS
  /\ UNCHANGED <<run, prev, cli, http>>

\* A alone has returned: put the file system back and call compile_template
\* for B alone
AloneB ==
  /\ peer.phase = "soloA"
  /\ pc = "done"
  /\ peer' = [peer EXCEPT !.phase = "soloB", !.who = "B"]
  /\ LoadRegs(FreshRegs(peer.regs.jrxml_arg, peer.regs.output_arg, peer.regs.dry_run,
                        peer.regs.reports_dir_param))
  /\ fs' = RestoreFS
  /\ UNCHANGED <<run, prev, cli, http>>

NextPair ==
  \/ Validate
  \/ Scan
  \/ Resolve
  \/ Report
  \/ CreateZipOpen
  \/ ZipWriteTemplate
  \/ ZipWriteAsset
  \/ ZipClose
  \/ Switch
  \/ AloneA
  \/ AloneB

SpecPair == InitPair /\ [][NextPair]_vars

\* ------------------------------------------ the delete and push commands
\* the variables of compile, which no command below touches
compileVars == <<fs, jrxml_arg, output_arg, dry_run, reports_dir_param, detected_params,
                 result, assets_to_include, idx, zidx, pc, run, prev, peer>>

\* names of the file handed to push; click has checked that the file exists
PushFiles == {"report.zip", "REPORT.ZIP", "test.txt", "report"}

TemplateIds == {"id-1", "id-2"}

\* how a call of the API client ends: it returns, or it raises one of the
\* exceptions the commands tell apart, or an exception that is no MubanError
ApiOutcomes == {"ok", "TemplateNotFoundError", "PermissionDeniedError",
                "ValidationError", "MubanError", "Exception"}

\* a command line: the command, its arguments and options, and whether the
\* stored configuration is complete
Command(name, configured, yes, quiet, fmt, file, id) ==
  [command |-> name, configured |-> configured, yes |-> yes, quiet |-> quiet,
   fmt |-> fmt, file |-> file, template_id |-> id,
   pc |-> "require_config", answered |-> "none", clients |-> 0, calls |-> <<>>,
   output |-> <<>>, exit_code |-> -1]

InitCli ==
  /\ \/ \E configured, yes, quiet \in BOOLEAN, id \in TemplateIds :
          cli = Command("delete", configured, yes, quiet, "table", "", id)
     \/ \E configured, quiet \in BOOLEAN, fmt \in {"table", "json"}, file \in PushFiles :
          cli = Command("push", configured, FALSE, quiet, fmt, file, "")
  /\ http = NoRequest
  /\ fs = InitialFS(<<>>)
  /\ jrxml_arg = TplPath
  /\ output_arg = NoPath
  /\ dry_run = FALSE
  /\ reports_dir_param = "REPORTS_DIR"
  /\ detected_params = {}
  /\ result = EmptyResult
  /\ assets_to_include = <<>>
  /\ idx = 0
  /\ zidx = 0
  /\ pc = "done"
  /\ run = 1
  /\ prev = [result |-> EmptyResult, out |-> NoNode]
  /\ peer = NoPeer

\* print_error, print_info, print_success, click.echo and print_json: one
\* more message on the terminal
Echo(c, msg) == [c EXCEPT !.output = Append(@, msg)]

\* sys.exit(code), or the return of the command (code 0)
Exit(c, code) == [c EXCEPT !.exit_code = code, !.pc = "exit"]

\* cli.py lines 96-111: the wrapper of require_config runs before the command
require_config ==
  /\ cli.pc = "require_config"
  /\ cli' = IF ~cli.configured
            THEN Exit(Echo(cli, "Muban CLI is not authenticated."), 1)
            ELSE [cli EXCEPT !.pc = cli.command]
  /\ UNCHANGED <<compileVars, http>>

\* confirm_action(message): the answers the user may give to the prompt,
\* TRUE to confirm and FALSE to decline
confirm_action == BOOLEAN

Proceeds_Always(yes, answer) == TRUE

\* cli.py lines 725-728: the command goes on when --yes was given or the
\* user confirmed
Proceeds(yes, answer) == yes \/ answer

\* cli.py lines 723-728: delete asks unless --yes was given; confirm_action
\* returns the answer of the user
delete_template_confirm ==
  /\ cli.pc = "delete"
  /\ \E answer \in confirm_action :
       LET asked == [cli EXCEPT !.answered = IF cli.yes THEN "none"
                                             ELSE IF answer THEN "yes" ELSE "no"]
       IN  cli' = IF Proceeds(cli.yes, answer)
                  THEN [asked EXCEPT !.pc = "delete_call"]
                  ELSE Exit(Echo(asked, "Cancelled."), 0)
  /\ UNCHANGED <<compileVars, http>>

\* the exit of a command after a call of the API client that raised
Failed(c, outcome, shown) ==
  IF outcome = "Exception" THEN Exit(c, 1) ELSE Exit(Echo(c, shown), 1)

\* cli.py lines 730-743: open the client, call delete_template, report
delete_template_call ==
  /\ cli.pc = "delete_call"
  /\ \E outcome \in ApiOutcomes :
       LET called == [cli EXCEPT !.clients = @ + 1,
                                 !.calls = Append(@, <<"delete_template", cli.template_id>>)]
       IN  cli' = CASE outcome = "ok" -> Exit(Echo(called, "Template deleted"), 0)
                    [] outcome = "TemplateNotFoundError" ->
                         Failed(called, outcome, "Template not found")
                    [] outcome = "PermissionDeniedError" ->
                         Failed(called, outcome, "Permission denied. Manager role required.")
                    [] OTHER -> Failed(called, outcome, "error")
  /\ UNCHANGED <<compileVars, http>>

IsZipFile_AnySuffix(file) == SuffixOf(file) # ""

\* cli.py line 624: the suffix test of push
IsZipFile(file) == Lower(SuffixOf(file)) = ".zip"

\* cli.py lines 621-626: push checks the suffix first
push_template_validate ==
  /\ cli.pc = "push"
  /\ cli' = IF ~IsZipFile(cli.file)
            THEN Exit(Echo(cli, "Template must be a ZIP file."), 1)
            ELSE [cli EXCEPT !.pc = "push_call"]
  /\ UNCHANGED <<compileVars, http>>

\* cli.py lines 628-657: open the client, call upload_template, report
push_template_upload ==
  /\ cli.pc = "push_call"
  /\ \E outcome \in ApiOutcomes :
       LET opened == [cli EXCEPT !.clients = @ + 1]
           told == IF cli.quiet THEN opened ELSE Echo(opened, "Uploading template")
           called == [told EXCEPT !.calls = Append(@, <<"upload_template", cli.file>>)]
       IN  cli' = CASE outcome = "ok" ->
                         Exit(Echo(called, IF cli.fmt = "json" THEN "json"
                                           ELSE "Template uploaded successfully!"), 0)
                    [] outcome = "ValidationError" ->
                         Failed(called, outcome, "Validation error")
                    [] outcome = "PermissionDeniedError" ->
                         Failed(called, outcome, "Permission denied. Manager role required.")
                    [] OTHER -> Failed(called, outcome, "error")
  /\ UNCHANGED <<compileVars, http>>

NextCli ==
  \/ require_config
  \/ delete_template_confirm
  \/ delete_template_call
  \/ push_template_validate
  \/ push_template_upload

SpecCli == InitCli /\ [][NextCli]_vars

\* ------------------------------------------------- HTTPClient.request
\* calls of request made on one client
MaxCalls == 2

\* the largest value of config.max_retries
MaxRetries == 1

\* status_forcelist of the session's retry strategy (line 65)
STATUS_FORCELIST == {429, 502, 503, 504}

\* what one transmission of the request may end in: a response with a
\* status code, or no response within the timeout
Responses == {200, 401, 404, 500, 503}

\* requests.exceptions.Timeout, written as a status no server sends
Timeout == 0

SendOutcomes == Responses \cup {Timeout}

\* the values callers give to expected_status
ExpectedSets == {{200}, {200, 204}, {200, 207, 500}}

\* what the refresh endpoint may answer: a new access token, an answer
\* without one, or a failure
RefreshOutcomes == {"token", "no_token", "raises"}

\* HTTPClient.__init__ on a configuration; tokens are numbered, 0 is none
Client(token, has_refresh, auto, retries) ==
  [pc |-> "idle", token |-> token, has_refresh |-> has_refresh,
   auto_refresh |-> auto, refresh_attempted |-> FALSE, max_retries |-> retries,
   calls |-> 0, expected |-> {200}, guard_at_entry |-> FALSE, pre |-> "none",
   handed |-> 0, wire |-> 0, retries_used |-> 0, refreshes |-> 0,
   statuses |-> <<>>, headers |-> <<>>, outcome |-> "none"]

InitHttp ==
  /\ http \in {Client(t, r, a, n) : t \in {0, 1}, r \in BOOLEAN, a \in BOOLEAN,
                                     n \in 0..MaxRetries}
  /\ cli = NoCommand
  /\ jrxml_arg = TplPath
  /\ output_arg = NoPath
  /\ dry_run = FALSE
  /\ reports_dir_param = "REPORTS_DIR"
  /\ fs = InitialFS(<<>>)
  /\ detected_params = {}
  /\ result = EmptyResult
  /\ assets_to_include = <<>>
  /\ idx = 0
  /\ zidx = 0
  /\ pc = "done"
  /\ run = 1
  /\ prev = [result |-> EmptyResult, out |-> NoNode]
  /\ peer = NoPeer

\* _get_headers: the Authorization header, when the configuration has a token
GetHeaders(h) == IF h.token # 0 THEN <<"Bearer", h.token>> ELSE <<>>

\* _try_refresh_token (lines 202-243): the client after the call and the
\* value returned
TryRefreshToken(h, answer) ==
  IF h.refresh_attempted THEN [h |-> h, ok |-> FALSE]
  ELSE LET g == [h EXCEPT !.refresh_attempted = TRUE]
       IN  IF ~g.has_refresh THEN [h |-> g, ok |-> FALSE]
           ELSE LET c == [g EXCEPT !.refreshes = @ + 1]
                IN  IF answer = "token"
                    THEN [h |-> [c EXCEPT !.token = @ + 1], ok |-> TRUE]
                    ELSE [h |-> c, ok |-> FALSE]

\* lines 270-276: refresh an expired token, clear the guard, build the headers
request_enter ==
  /\ http.pc = "idle"
  /\ http.calls < MaxCalls
  /\ \E expected \in ExpectedSets, expired \in BOOLEAN, answer \in RefreshOutcomes :
       LET h0 == [http EXCEPT !.calls = @ + 1, !.expected = expected,
                              !.guard_at_entry = http.refresh_attempted,
                              !.pre = "none", !.handed = 0, !.wire = 0,
                              !.retries_used = 0, !.refreshes = 0,
                              !.statuses = <<>>, !.headers = <<>>,
                              !.outcome = "none"]
           tried == TryRefreshToken(h0, answer)
           h1 == IF h0.auto_refresh /\ expired
                 THEN [tried.h EXCEPT !.pre = IF tried.h.refreshes > 0 THEN "contacted"
                                              ELSE "skipped"]
                 ELSE h0
           h2 == [h1 EXCEPT !.refresh_attempted = FALSE]
       IN  http' = [h2 EXCEPT !.pc = "send", !.handed = 1,
                              !.headers = Append(@, GetHeaders(h2))]
  /\ UNCHANGED <<compileVars, cli>>

\* the retry strategy of the session (lines 61-71): a status of the
\* force list, or no response, is answered by another transmission
IsRetry(outcome) == outcome \in STATUS_FORCELIST \/ outcome = Timeout

\* self.session.request (lines 282-292 and 297-307): one transmission and
\* what the session's adapter makes of its outcome
session_request ==
  /\ http.pc = "send"
  /\ \E outcome \in SendOutcomes :
       LET sent == [http EXCEPT !.wire = @ + 1]
       IN  http' =
             IF IsRetry(outcome)
             THEN IF http.retries_used < http.max_retries
                  THEN [sent EXCEPT !.retries_used = @ + 1]
                  ELSE [sent EXCEPT !.pc = "idle", !.outcome = "APIError"]
             ELSE [sent EXCEPT !.statuses = Append(@, outcome),
                               !.pc = IF http.handed = 1 THEN "answered" ELSE "handle"]
  /\ UNCHANGED <<compileVars, cli>>

RefreshOn401_AnyStatus(h, status) == h.auto_refresh /\ ~h.refresh_attempted

\* line 294: the test that opens the refresh after the first response
RefreshOn401(h, status) == status = 401 /\ h.auto_refresh /\ ~h.refresh_attempted

\* lines 294-296: after a 401, refresh the token and hand the request to the
\* session again with new headers
request_answered ==
  /\ http.pc = "answered"
  /\ \E answer \in RefreshOutcomes :
       LET tried == TryRefreshToken(http, answer)
       IN  http' =
             IF RefreshOn401(http, Last(http.statuses))
             THEN IF tried.ok
                  THEN [tried.h EXCEPT !.pc = "send", !.handed = 2, !.retries_used = 0,
                                       !.headers = Append(@, GetHeaders(tried.h))]
                  ELSE [tried.h EXCEPT !.pc = "handle"]
             ELSE [http EXCEPT !.pc = "handle"]
  /\ UNCHANGED <<compileVars, cli>>

\* _handle_response (lines 97-167): the value returned or the exception raised
HandleResponse(status, expected) ==
  IF status \in expected THEN "returned"
  ELSE CASE status = 401 -> "AuthenticationError"
         [] status = 403 -> "PermissionDeniedError"
         [] status = 404 -> "TemplateNotFoundError"
         [] status \in {400, 422} -> "ValidationError"
         [] OTHER -> "APIError"

\* line 316
request_return ==
  /\ http.pc = "handle"
  /\ http' = [http EXCEPT !.pc = "idle",
                          !.outcome = HandleResponse(Last(http.statuses), http.expected)]
  /\ UNCHANGED <<compileVars, cli>>

NextHttp ==
  \/ request_enter
  \/ session_request
  \/ request_answered
  \/ request_return

SpecHttp == InitHttp /\ [][NextHttp]_vars

TypeOK ==
  /\ pc \in {"start", "scan", "resolve", "zip_open", "zip_tpl", "zip_assets", "done", "raised"}
  /\ run \in 1..MaxRuns
  /\ idx \in 0..(Len(result.assets_found) + 1)

\* ================================================================ claims
found == result.assets_found

\* the static references and the dynamic-directory references of assets_found
StaticRefs == {i \in 1..Len(found) : ~found[i].is_dynamic_dir}

DynRefs == {i \in 1..Len(found) : found[i].is_dynamic_dir}

AbsOf(ref) == ResolveAgainst(base_dir, ref.path)

\* the entries of the archive at the output path
ArchiveEntries == Node(output_path).entries

\* compile has returned a result after a build that wrote the whole archive
BuiltOk == pc = "done" /\ ~dry_run /\ result.success

\* the text of the template that was scanned
TemplateText == Node(jrxml_path).text

\* C1: after compile, every static reference of assetsFound whose literal
\* resolves to an existing file has the resolved file in assetsIncluded and,
\* after a successful build, the archive has an entry whose name is the
\* literal exactly as written in the template.
C1_StaticInclusion ==
  pc = "done" =>
    \A i \in StaticRefs :
      IsFile(AbsOf(found[i])) =>
        /\ InSeq(AbsOf(found[i]), result.assets_included)
        /\ BuiltOk => \E k \in 1..Len(ArchiveEntries) : ArchiveEntries[k].name = found[i].path

\* C2: a literal that begins with a network scheme never appears in
\* assetsFound, assetsMissing, among the included (source, archive path)
\* pairs or as an archive entry, whatever the shape of its expression.
C2_RemoteExclusion ==
  /\ \A i \in 1..Len(found) : ~IsUrl(found[i].path)
  /\ \A i \in 1..Len(result.assets_missing) : ~IsUrl(result.assets_missing[i].path)
  /\ \A i \in 1..Len(assets_to_include) : ~IsUrl(assets_to_include[i][2])

\* C3: a second compile with the same arguments on the file system the first
\* one left returns the same assetsFound, assetsIncluded and assetsMissing
\* and leaves an archive with the same entry names and contents.
C3_Idempotence ==
  (pc = "done" /\ run >= 2) =>
    /\ result.assets_found = prev.result.assets_found
    /\ result.assets_included = prev.result.assets_included
    /\ result.assets_missing = prev.result.assets_missing
    /\ ArchiveEntries = prev.out.entries

\* the file at p is an archive that lacks some of the entries compile was
\* going to write (the template and one entry per included pair)
PartialArchiveAt(p) ==
  /\ IsFile(p)
  /\ Node(p).tag = "zip"
  /\ Len(Node(p).entries) < 1 + Len(assets_to_include)

\* C4: when the build fails, compile returns success=false with an error and
\* no partially written file is left at the output path.
C4_AtomicBuildFailure ==
  (pc = "done" /\ InSeq(Error("Failed to create ZIP"), result.errors)) =>
    /\ ~result.success
    /\ ~PartialArchiveAt(output_path)

\* C5: every reference of assetsFound comes from an expression whose path
\* parameter is the configured one: $P{reports_dir_param} + "literal".
C5_PathParamHonoured ==
  \A i \in 1..Len(found) :
    \E m \in {AssetMatches(TemplateText)[k] : k \in 1..Len(AssetMatches(TemplateText))} :
      m.path = found[i].path /\ m.param = reports_dir_param

\* C6: assetsFound lists the references in the order of their first
\* occurrence in the text, whatever their kind.
C6_DiscoveryOrder ==
  \A i, j \in 1..Len(found) :
    i < j => found[i].line_number <= found[j].line_number

\* C7: compile always ends by returning a CompilationResult; no exception
\* escapes it.
C7_NoExceptionEscapes == pc # "raised"

\* whether an archive path lies under the literal directory prefix
UnderPrefix(arc, prefix) ==
  /\ Len(arc) >= Len(prefix)
  /\ SubSeq(arc, 1, Len(prefix) - 1) = Front(prefix)

\* the resolution loop is over and nothing was written yet
Resolved == pc = "resolve" /\ idx > Len(found)

\* C8: a dynamic-directory reference that resolves to a directory with the
\* immediate files f1..fN accounts for exactly N entries under its literal
\* prefix, prefix+name(fi) once for each i, and for nothing else.
C8_DirCompleteness ==
  Resolved =>
    \A d \in DynRefs :
      DirFound(AbsOf(found[d])) =>
        LET files == FilesOf(ListDir(AbsOf(found[d])))
            under == {k \in 1..Len(assets_to_include) :
                        UnderPrefix(assets_to_include[k][2], found[d].path)}
        IN  /\ Cardinality(under) = Len(files)
            /\ \A n \in 1..Len(files) :
                 Cardinality({k \in under : assets_to_include[k] =
                     <<files[n], StrConcat(found[d].path, Last(files[n]))>>}) = 1

\* the warning for a missing static reference
MissingWarning(ref) ==
  Warning("Asset not found", ref.path, Last(jrxml_path), <<>>, 0)

\* the resolution loop is about to handle a static reference that does not exist
AtMissingStatic ==
  /\ pc = "resolve"
  /\ idx <= Len(found)
  /\ ~found[idx].is_dynamic_dir
  /\ ~Exists(AbsOf(found[idx]))

C10_DryRunNonMutation ==
  /\ [][dry_run => fs' = fs]_vars
  /\ [](dry_run /\ pc = "done" /\ result.success => output_path # NoPath)

\* a dry run has returned; neither the archive nor its directory exist
C10_Witness ==
  /\ dry_run
  /\ pc = "done"
  /\ result.success
  /\ result.assets_included # <<>>
  /\ output_path = <<"w", "build", "out.zip">>
  /\ ~Exists(output_path)
  /\ ~Exists(Front(output_path))

\* the scanner has run on the template and its references are in assets_found
Scanned ==
  \/ pc \in {"resolve", "zip_open", "zip_tpl", "zip_assets", "raised"}
  \/ pc = "done" /\ result.main_jrxml # NoPath
                 /\ ~InSeq(Error("Failed to parse JRXML"), result.errors)

\* the matches of the dynamic-directory pattern in the template, in text order
DynSeen == DynMatches(TemplateText)

\* whether match k is the first match of its literal directory
FirstOfItsDir(k) == \A j \in 1..(k - 1) : DynSeen[j].path # DynSeen[k].path

\* C12: assetsFound never holds two references with the same path; each
\* literal directory matched by the dynamic-directory pattern is reported by
\* exactly one reference, which carries the dynamic expression and the line
\* of the first match; a literal claimed by that pattern is never reported
\* as a static reference.
C12_DedupPrecedence ==
  Scanned =>
    /\ \A i, j \in 1..Len(found) : found[i].path = found[j].path => i = j
    /\ \A k \in 1..Len(DynSeen) :
         FirstOfItsDir(k) =>
           /\ Cardinality({i \in 1..Len(found) : found[i].path = DynSeen[k].path}) = 1
           /\ \E i \in DynRefs :
                /\ found[i].path = DynSeen[k].path
                /\ found[i].dynamic_param = DynSeen[k].dyn
                /\ found[i].line_number = DynSeen[k].line
    /\ \A i \in StaticRefs : \A k \in 1..Len(DynSeen) : found[i].path # DynSeen[k].path

\* one literal directory was matched twice, under two dynamic expressions
C12_Witness ==
  /\ Scanned
  /\ \E j, k \in 1..Len(DynSeen) :
       /\ j < k
       /\ DynSeen[j].path = DynSeen[k].path
       /\ DynSeen[j].dyn # DynSeen[k].dyn
  /\ Len(found) = 1

\* the one warning about the extension of the source
ExtensionWarnings ==
  SelectSeq(result.warnings, LAMBDA w : w.kind = "File does not have .jrxml extension")

\* the source is absent from the file system
SourceAbsent == jrxml_path \notin DOMAIN fs \/ fs[jrxml_path].kind = "none"

\* C13: compile aborts at validation exactly when the source path does not
\* exist: the step from the start then ends the run with success false and
\* one error, every list empty and no file touched, and neither the scanner,
\* the resolver nor the archive writer takes a step. When the source exists,
\* validation adds one warning exactly if the extension is not .jrxml, adds
\* no error and hands over to the scanner.
C13_ValidationOutcome ==
  /\ [][pc = "start" =>
          /\ fs' = fs
          /\ IF SourceAbsent
             THEN /\ pc' = "done"
                  /\ result' = [EmptyResult EXCEPT !.errors = <<Error("JRXML file not found")>>]
                  /\ assets_to_include' = <<>>
             ELSE /\ pc' = "scan"
                  /\ result'.errors = <<>>
                  /\ result'.warnings =
                       IF jrxml_path \in {<<"w", "t.txt">>, <<"w", "dir">>}
                       THEN <<Warning("File does not have .jrxml extension", jrxml_path, "", <<>>, 0)>>
                       ELSE <<>>]_vars
  /\ [](pc = "done" =>
          /\ SourceAbsent <=> result.main_jrxml = NoPath
          /\ SourceAbsent => ~result.success /\ Len(result.errors) = 1
                             /\ result.assets_found = <<>> /\ result.assets_included = <<>>
                             /\ result.assets_missing = <<>>
          /\ Len(ExtensionWarnings) =
               IF jrxml_path \in {<<"w", "t.txt">>, <<"w", "dir">>} THEN 1 ELSE 0)

\* a run on a source without the template extension went through the
\* scanner and the resolver with its one warning
C13_Witness ==
  /\ pc = "done"
  /\ jrxml_path = <<"w", "t.txt">>
  /\ Len(ExtensionWarnings) = 1
  /\ Len(result.assets_included) = 1
  /\ result.success

\* C14: in every result compile returns, success is true exactly when errors
\* is empty; a step that adds a warning adds no error and leaves success as
\* it was, so no warning ever makes success false.
C14_SuccessIffNoErrors ==
  /\ [](pc = "done" => (result.success <=> result.errors = <<>>))
  /\ [][run' = run /\ result'.warnings # result.warnings =>
          /\ result'.errors = result.errors
          /\ result'.success = result.success]_vars

\* a build that succeeded with a warning for a missing asset and one for a
\* missing directory
C14_Witness ==
  /\ pc = "done"
  /\ ~dry_run
  /\ result.success
  /\ \E w \in 1..Len(result.warnings) : result.warnings[w].kind = "Asset not found"
  /\ \E w \in 1..Len(result.warnings) : result.warnings[w].kind = "Directory not found"

\* C15: the archive of a successful build holds the template first, under
\* its base name at the root, then one entry for each resolved pair in
\* resolution order, named by the pair's archive-relative path and holding
\* the bytes of its source; it holds no other entry and no entry that stands
\* for a directory.
C15_ArchiveLayout ==
  BuiltOk =>
    /\ Len(ArchiveEntries) = 1 + Len(assets_to_include)
    /\ ArchiveEntries[1] = [name |-> <<Last(jrxml_path)>>, data |-> DataOf(Node(jrxml_path))]
    /\ \A k \in 1..Len(assets_to_include) :
         /\ ArchiveEntries[k + 1].name = assets_to_include[k][2]
         /\ ArchiveEntries[k + 1].data = DataOf(Node(assets_to_include[k][1]))
    /\ \A k \in 1..Len(ArchiveEntries) : ~EndsWithSlash(ArchiveEntries[k].name)

\* the place of a control point in the order validate, scan, resolve, build
\* archive, report
StepRank(p) ==
  CASE p = "start" -> 0
    [] p = "scan" -> 1
    [] p = "resolve" -> 2
    [] p = "zip_open" -> 3
    [] p = "zip_tpl" -> 4
    [] p = "zip_assets" -> 5
    [] p \in {"done", "raised"} -> 6

Building == pc \in {"zip_open", "zip_tpl", "zip_assets"}

\* C16: within one call of compile the control point never moves back in the
\* order validate, scan, resolve, build, report; the archive writer runs only
\* with dryRun false, after every reference was resolved and with no error
\* recorded; only the archive writer changes the file system; a call that
\* ends in validation or in the scanner has changed no file.
C16_LinearStepOrder ==
  /\ [][run' = run => StepRank(pc') >= StepRank(pc)]_vars
  /\ [][run' # run => pc = "done" /\ pc' = "start"]_vars
  /\ [](Building => ~dry_run /\ idx > Len(found) /\ result.errors = <<>>)
  /\ [][fs' # fs => Building]_vars
  /\ [][pc' = "done" /\ pc \in {"start", "scan"} =>
          /\ result'.errors # <<>>
          /\ assets_to_include' = <<>>
          /\ fs' = fs]_vars

\* the archive writer is about to add the second of two resolved assets
C16_Witness ==
  /\ pc = "zip_assets"
  /\ zidx = 2
  /\ Len(assets_to_include) >= 2
  /\ Len(ArchiveEntries) = 2

\* the resolution loop is at a dynamic-directory reference whose literal
\* resolves to no directory: to nothing, or to something else than a directory
AtMissingDir ==
  /\ pc = "resolve"
  /\ idx <= Len(found)
  /\ found[idx].is_dynamic_dir
  /\ AbsOf(found[idx]) \notin DOMAIN fs \/ fs[AbsOf(found[idx])].kind # "dir"

DirNotFoundWarning(ref) ==
  Warning("Directory not found", ref.path, Last(jrxml_path), <<>>, 0)

\* C17: the step that resolves a dynamic-directory reference whose literal
\* names no directory appends the reference to assetsMissing and exactly one
\* warning, adds nothing to assetsIncluded or to the pairs to pack, records
\* no error and goes on with the next reference; when compile returns, the
\* reference is in assetsMissing once with one warning to its name, and a
\* built archive has no entry under its literal.
C17_MissingDynamicDir ==
  /\ [][AtMissingDir =>
          /\ result'.assets_missing = Append(result.assets_missing, found[idx])
          /\ result'.warnings = Append(result.warnings, DirNotFoundWarning(found[idx]))
          /\ result'.assets_included = result.assets_included
          /\ assets_to_include' = assets_to_include
          /\ result'.errors = result.errors
          /\ pc' = "resolve" /\ idx' = idx + 1 /\ fs' = fs]_vars
  /\ [](pc = "done" /\ found # <<>> =>
          \A d \in DynRefs :
            ~IsDir(AbsOf(found[d])) =>
              /\ Len(SelectSeq(result.assets_missing, LAMBDA m : m = found[d])) = 1
              /\ Len(SelectSeq(result.warnings, LAMBDA w : w.path = found[d].path)) = 1
              /\ InSeq(DirNotFoundWarning(found[d]), result.warnings)
              /\ BuiltOk =>
                   \A k \in 1..Len(ArchiveEntries) :
                     ~UnderPrefix(ArchiveEntries[k].name, found[d].path))

\* a build returned with two directories reported missing: one that does not
\* exist and one that is a file
C17_Witness ==
  /\ BuiltOk
  /\ Len(result.assets_missing) = 2
  /\ \E d \in DynRefs : ~Exists(AbsOf(found[d]))
  /\ \E d \in DynRefs : IsFile(AbsOf(found[d]))
  /\ Len(ArchiveEntries) = 1

\* the resolution loop is at a dynamic-directory reference whose literal
\* resolves to an existing directory
AtExistingDir ==
  /\ pc = "resolve"
  /\ idx <= Len(found)
  /\ found[idx].is_dynamic_dir
  /\ AbsOf(found[idx]) \in DOMAIN fs /\ fs[AbsOf(found[idx])].kind = "dir"

\* C18: the step that resolves a dynamic-directory reference whose literal
\* names an existing directory emits exactly one warning; the count it
\* states is the number of pairs, and of assetsIncluded entries, the step
\* added (0 for an empty directory), and the reference is not recorded as
\* missing.
C18_SweepWarning ==
  [][AtExistingDir =>
       LET n == Len(assets_to_include') - Len(assets_to_include)
       IN  /\ n = Len(result'.assets_included) - Len(result.assets_included)
           /\ result'.warnings =
                Append(result.warnings,
                       Warning("Dynamic asset", found[idx].path, "", found[idx].dynamic_param, n))
           /\ result'.assets_missing = result.assets_missing]_vars

\* the kind the extension of a file name stands for, whatever its case
KindByExtension(name) ==
  CASE name \in {"logo.png", "LOGO.PNG", "a.png", "b.png", "c.png", "missing.png",
                 "secret.png", "x.png", "pic.png"} -> "image"
    [] name \in {"sub.jrxml", "t.jrxml", "u.jrxml"} -> "subreport"
    [] OTHER -> "unknown"

\* C20: every reference of assetsFound is a static or a dynamic-directory
\* reference: its kind is 'directory' exactly when isDynamicDirectory is
\* true, it carries a dynamic expression exactly when isDynamicDirectory is
\* true, and a static reference has the kind image, subreport or unknown
\* that the extension of its literal stands for.
C20_ReferenceVariant ==
  \A i \in 1..Len(found) :
    /\ found[i].is_dynamic_dir \in BOOLEAN
    /\ found[i].asset_type = "directory" <=> found[i].is_dynamic_dir
    /\ found[i].dynamic_param # <<>> <=> found[i].is_dynamic_dir
    /\ ~found[i].is_dynamic_dir =>
         /\ found[i].asset_type \in {"image", "subreport", "unknown"}
         /\ found[i].asset_type = KindByExtension(Last(found[i].path))

\* the scanner returned a dynamic-directory reference and a static reference
\* to an image whose extension is in upper case
C20_Witness ==
  /\ Scanned
  /\ DynRefs # {}
  /\ \E i \in StaticRefs : found[i].path = <<"LOGO.PNG">> /\ found[i].asset_type = "image"

\* the full run that followed the dry run has returned
FullAfterDry == pc = "done" /\ ~dry_run /\ run = 2

\* the fields a dry run and a full run fill before the archive is written
SameDiagnostics ==
  /\ result.main_jrxml = prev.result.main_jrxml
  /\ result.output_path = prev.result.output_path
  /\ result.assets_found = prev.result.assets_found
  /\ result.assets_included = prev.result.assets_included
  /\ result.assets_missing = prev.result.assets_missing
  /\ result.skipped_urls = prev.result.skipped_urls
  /\ result.skipped_dynamic = prev.result.skipped_dynamic
  /\ result.warnings = prev.result.warnings

\* C11 as stated: a dry run and a full run from the same template, arguments
\* and file system return the same mainTemplate, outputPath, assetsFound,
\* assetsIncluded, assetsMissing, skipped lists, warnings and errors.
C11_DryRunEqualsFullRun ==
  FullAfterDry => SameDiagnostics /\ result.errors = prev.result.errors

\* C11 amended: the two runs return the same mainTemplate, outputPath,
\* assetsFound, assetsIncluded, assetsMissing, skipped lists and warnings;
\* their errors are the same when the full run succeeds or the dry run
\* failed, and otherwise the full run has the one error of the archive step,
\* which the dry run, having succeeded, does not have.
C11_DryRunEqualsFullRunBeforeBuild ==
  FullAfterDry =>
    /\ SameDiagnostics
    /\ result.success \/ ~prev.result.success => result.errors = prev.result.errors
    /\ result.success => prev.result.success
    /\ ~result.success /\ prev.result.success =>
         /\ prev.result.errors = <<>>
         /\ result.errors = <<Error("Failed to create ZIP")>>

\* the full run failed in the archive step after a dry run that succeeded
\* with a warning
C11_Witness ==
  /\ FullAfterDry
  /\ prev.result.success
  /\ prev.result.warnings # <<>>
  /\ result.errors = <<Error("Failed to create ZIP")>>

\* the tree of the running call: w for A, v for B
OwnTree == IF peer.who = "A" THEN "w" ELSE "v"

\* the paths the next step of the running call reads or writes
Touched ==
  CASE pc \in {"start", "scan"} -> {jrxml_path}
    [] pc = "resolve" /\ idx <= Len(found) ->
         {AbsOf(found[idx])} \cup
           (IF found[idx].is_dynamic_dir /\ IsDir(AbsOf(found[idx]))
            THEN {ListDir(AbsOf(found[idx]))[k] : k \in 1..Len(ListDir(AbsOf(found[idx])))}
            ELSE {})
    [] pc = "zip_open" -> {output_path, Front(output_path)}
    [] pc = "zip_tpl" -> {output_path, jrxml_path}
    [] pc = "zip_assets" /\ zidx <= Len(assets_to_include) ->
         {output_path, assets_to_include[zidx][1]}
    [] OTHER -> {}

\* C19: of two calls of compile whose steps interleave in any order, on
\* templates in the disjoint trees w and v with different output paths, each
\* returns the result and leaves the archive that it returns and leaves when
\* it runs alone on the same file system; every step reads and writes only
\* paths of the tree of the call that takes it.
C19_IndependentInvocations ==
  /\ [](peer.phase = "soloA" /\ pc = "done" => Outcome(CurrentRegs) = peer.refA)
  /\ [](peer.phase = "soloB" /\ pc = "done" => Outcome(CurrentRegs) = peer.refB)
  /\ [](\A p \in Touched : p # <<>> /\ p[1] = OwnTree)
  /\ [][peer'.phase = "both" =>
          \A p \in DOMAIN fs : fs'[p] # fs[p] => p # <<>> /\ p[1] = OwnTree]_vars

\* B, resumed while A is suspended in the middle of writing its archive, is
\* in the middle of writing its own
C19_Witness ==
  /\ peer.phase = "both"
  /\ peer.who = "B"
  /\ pc = "zip_assets"
  /\ zidx = 1
  /\ peer.regs.pc = "zip_assets"
  /\ peer.regs.zidx = 2
  /\ Len(peer.regs.assets_to_include) >= 2

\* the source path with its extension replaced by .zip, in the same directory
ZipBesideSource ==
  CASE jrxml_path = <<"w", "t.jrxml">> -> <<"w", "t.zip">>
    [] jrxml_path = <<"w", "t.txt">> -> <<"w", "t.zip">>
    [] jrxml_path = <<"w", "dir">> -> <<"w", "dir.zip">>
    [] jrxml_path = <<"w", "nofile.jrxml">> -> <<"w", "nofile.zip">>
    [] jrxml_path = <<"w", "t.zip">> -> <<"w", "t.zip">>

\* C21: once validation has passed, result.outputPath is the source path
\* with its extension replaced by .zip when no output path was given, and
\* the given output path otherwise; a step of compile creates or changes a
\* file at result.outputPath only, and after a build the archive is there.
C21_DefaultOutputPath ==
  /\ [](result.main_jrxml # NoPath =>
          output_path = IF output_arg = NoPath THEN ZipBesideSource ELSE output_arg)
  /\ [][run' = run =>
          \A p \in DOMAIN fs :
            fs'[p] # fs[p] /\ fs'[p].kind = "file" => p = output_path /\ fs'[p].tag = "zip"]_vars
  /\ [](BuiltOk => IsFile(output_path) /\ Node(output_path).tag = "zip"
                   /\ Len(ArchiveEntries) >= 1)

\* a build without an output path has left its archive beside the template
C21_Witness ==
  /\ BuiltOk
  /\ output_arg = NoPath
  /\ output_path = <<"w", "t.zip">>
  /\ Len(ArchiveEntries) >= 2

\* C24: the file compile opens for writing is not the source template and
\* not one of the files it is about to pack.
C24_InputsNeverOverwritten ==
  [][pc = "zip_open" /\ pc' = "zip_tpl" =>
       /\ output_path # jrxml_path
       /\ \A k \in 1..Len(assets_to_include) : assets_to_include[k][1] # output_path]_vars

\* a delete command without --yes
DeleteAsking == cli.command = "delete" /\ ~cli.yes

\* C22: delete without --yes calls delete_template of the API client, once
\* and for the template named, exactly when the user confirmed the prompt;
\* when the user declined, no client was opened and no call made, the one
\* message is 'Cancelled.' and the exit code is 0.
C22_DeleteConfirmationGate ==
  /\ [](DeleteAsking => Len(cli.calls) <= 1 /\ (cli.calls # <<>> => cli.answered = "yes"))
  /\ [](DeleteAsking /\ cli.pc = "exit" =>
          /\ cli.answered = "yes" <=> cli.calls = << <<"delete_template", cli.template_id>> >>
          /\ cli.answered = "no" =>
               /\ cli.clients = 0
               /\ cli.calls = <<>>
               /\ cli.output = <<"Cancelled.">>
               /\ cli.exit_code = 0)

\* the user declined and the command has ended
C22_Witness ==
  /\ DeleteAsking
  /\ cli.pc = "exit"
  /\ cli.answered = "no"
  /\ cli.exit_code = 0

\* a push command whose file has a suffix other than .zip in any case
PushNonZip == cli.command = "push" /\ cli.file \in {"test.txt", "report"}

EntryNames(entries) == [k \in 1..Len(entries) |-> entries[k].name]

\* no two places of the sequence hold the same value
NoRepeats(s) == \A i, j \in 1..Len(s) : s[i] = s[j] => i = j

\* C26: the archive of a successful build never holds two entries with the
\* same name, and assets_included never lists the same file twice.
C26_UniqueArchiveEntries ==
  /\ pc = "done" => NoRepeats(result.assets_included)
  /\ BuiltOk => NoRepeats(EntryNames(ArchiveEntries))

\* C27: every path recorded in assets_included, and every source queued for
\* the archive, is an existing regular file.
C27_OnlyFilesIncluded ==
    /\ \A k \in 1..Len(result.assets_included) : IsFile(result.assets_included[k])
    /\ \A k \in 1..Len(assets_to_include) : IsFile(assets_to_include[k][1])

\* the path lies at or below the directory
Below(path, dir) == Len(path) >= Len(dir) /\ SubSeq(path, 1, Len(dir)) = dir

\* an entry name that unpacks below the root of the archive
RelativeInside(name) ==
  /\ name # <<>>
  /\ name[1] # ""
  /\ \A k \in 1..Len(name) : name[k] # ".."

\* C25: every file recorded as included or queued for the archive lies at or
\* below the template's directory, and every entry name of a written archive
\* is relative and has no ".." part.
C25_Containment ==
  /\ \A k \in 1..Len(result.assets_included) : Below(result.assets_included[k], base_dir)
  /\ \A k \in 1..Len(assets_to_include) : Below(assets_to_include[k][1], base_dir)
  /\ BuiltOk => \A k \in 1..Len(ArchiveEntries) : RelativeInside(ArchiveEntries[k].name)

RECURSIVE IsSubsequence(_, _)
\* the first sequence is the second with some places left out
IsSubsequence(s, t) ==
  IF s = <<>> THEN TRUE
  ELSE IF t = <<>> THEN FALSE
  ELSE IF Head(s) = Head(t) THEN IsSubsequence(Tail(s), Tail(t))
  ELSE IsSubsequence(s, Tail(t))

\* the resolution loop was entered and compile has left it, by its end or
\* by an exception
ResolutionOver ==
  \/ Resolved
  \/ pc \in {"zip_open", "zip_tpl", "zip_assets", "raised"}
  \/ pc = "done" /\ result.main_jrxml # NoPath
                 /\ ~InSeq(Error("Failed to parse JRXML"), result.errors)

\* the sweep warnings that name the literal of a reference
SweepWarnings(ref) ==
  SelectSeq(result.warnings, LAMBDA w : w.kind = "Dynamic asset" /\ w.path = ref.path)

\* the dynamic-directory references that produced a sweep warning
Swept == {d \in DynRefs : SweepWarnings(found[d]) # <<>>}

\* C28: once resolution is over, assets_missing is a subsequence of
\* assets_found; each static reference is either missing or has its resolved
\* path in assets_included, never both; each dynamic-directory reference is
\* either missing or has exactly one sweep warning, never both; and the
\* warnings are one for each missing reference, one for each swept directory
\* and one more when the source extension is not .jrxml.
C28_ReferenceAccounting ==
  ResolutionOver =>
    /\ IsSubsequence(result.assets_missing, found)
    /\ \A i \in StaticRefs :
         InSeq(found[i], result.assets_missing)
           # InSeq(AbsOf(found[i]), result.assets_included)
    /\ \A d \in DynRefs :
         /\ InSeq(found[d], result.assets_missing) # (d \in Swept)
         /\ Len(SweepWarnings(found[d])) <= 1
    /\ Len(result.warnings) = Len(result.assets_missing) + Cardinality(Swept)
                                + (IF Lower(SuffixOf(Last(jrxml_path))) # ".jrxml"
                                   THEN 1 ELSE 0)

\* a call of request is under way or has ended
InRequest == http.pc # "none" /\ http.calls > 0

\* the request was handed to the session a second time
SentAgain == InRequest /\ http.handed = 2

\* the second hand-over follows a 401 with auto-refresh on and a refresh
\* that gave a new token, which its Authorization header carries
SecondAfterRefresh ==
  /\ http.statuses[1] = 401
  /\ http.auto_refresh
  /\ http.refreshes >= 1
  /\ http.headers[2] = <<"Bearer", http.token>>
  /\ http.headers[2] # http.headers[1]

\* the call has ended on a 401 answer to the second hand-over
SecondRefused ==
  /\ SentAgain
  /\ http.pc = "idle"
  /\ Len(http.statuses) = 2
  /\ http.statuses[2] = 401

\* C29 as stated: one call of request puts the HTTP request on the wire at
\* most twice; the second transmission follows a 401, auto-refresh and a
\* successful refresh and carries the new token; a 401 to it ends the call
\* with AuthenticationError.
C29_BoundedResend ==
  /\ InRequest => http.wire <= 2
  /\ SentAgain => SecondAfterRefresh
  /\ SecondRefused => http.outcome = "AuthenticationError"

\* C29, amended: one call of request hands the HTTP request to the session
\* at most twice, and the session transmits each hand-over at most
\* 1 + max_retries times; the second hand-over follows a 401, auto-refresh
\* and a successful refresh and carries the new token; a 401 to it ends the
\* call with AuthenticationError and no third hand-over.
C29_BoundedHandOver ==
  /\ InRequest => /\ http.handed <= 2
                  /\ http.wire <= http.handed * (1 + http.max_retries)
  /\ SentAgain => SecondAfterRefresh
  /\ SecondRefused => http.outcome = "AuthenticationError"

\* a call that re-sent by the retry strategy and by the refresh, and ended
\* on a second 401
C29_Witness ==
  /\ SecondRefused
  /\ http.outcome = "AuthenticationError"
  /\ http.wire > 2

\* C30: during one call of request the refresh endpoint is contacted at most
\* once, and the guard is clear when a call begins.
C30_OneRefreshPerRequest ==
  InRequest => /\ http.refreshes <= 1
               /\ ~http.guard_at_entry
====
